---- MODULE Spec2Model ----
(***************************************************************************)
(* Model of the Q&A synthesis pipeline (src/src/qa_generator.py) and of    *)
(* the multi-collection similarity search (src/src/chat_service.py,        *)
(* src/src/vector_store.py, src/examples/search_dbv.py,                    *)
(* src/examples/semantic_search.py, src/app.py).                           *)
(*                                                                         *)
(* Generated text is a sequence of tokens.  A token is either one of the   *)
(* structural markers the regular expressions of qa_generator.py look for  *)
(* or a single character.                                                  *)
(***************************************************************************)
EXTENDS Integers, Sequences, FiniteSets, TLC

\* ------------------------------------------------------------------------
\* Bounds of the model
\* ------------------------------------------------------------------------
MaxTarget == 3

\* ------------------------------------------------------------------------
\* Program constants
\* ------------------------------------------------------------------------
INITIAL_CHUNK_SIZE == 15000
MAX_RETRIES == 3
SmallTextLimit == 5000
TailWindow == 5000
MinRecordLen == 20

\* ------------------------------------------------------------------------
\* Text: tokens and the string functions used by the code
\* ------------------------------------------------------------------------
\* "**Pergunta n:**"
Marker(n) == [k |-> "num", n |-> n, c |-> ""]
\* "**Pergunta n:" not followed by "**"
OpenMarker(n) == [k |-> "open", n |-> n, c |-> ""]
\* "**Pergunta:**"
PlainMarker == [k |-> "plain", n |-> 0, c |-> ""]
Ch(c) == [k |-> "ch", n |-> 0, c |-> c]

IsSpace(t) == t.k = "ch" /\ t.c \in {" ", "\n"}

\* len() of the characters a token stands for (single-digit numbers)
TokLen(t) ==
  CASE t.k = "num" -> 15
    [] t.k = "open" -> 13
    [] t.k = "plain" -> 13
    [] OTHER -> 1

RECURSIVE TextLen(_)
TextLen(s) == IF s = <<>> THEN 0 ELSE TokLen(Head(s)) + TextLen(Tail(s))

RECURSIVE LStrip(_)
LStrip(s) == IF s # <<>> /\ IsSpace(Head(s)) THEN LStrip(Tail(s)) ELSE s

RECURSIVE RStrip(_)
RStrip(s) ==
  IF s # <<>> /\ IsSpace(s[Len(s)]) THEN RStrip(SubSeq(s, 1, Len(s) - 1)) ELSE s

\* str.strip()
Strip(s) == RStrip(LStrip(s))

\* bool(s and s.strip())
NonBlank(s) == Strip(s) # <<>>

\* re.sub(r'\s+', ' ', s)
RECURSIVE CollapseWS(_)
CollapseWS(s) ==
  IF s = <<>> THEN <<>>
  ELSE IF IsSpace(Head(s))
       THEN <<Ch(" ")>> \o CollapseWS(LStrip(s))
       ELSE <<Head(s)>> \o CollapseWS(Tail(s))

LowerCh(c) == CASE c = "A" -> "a" [] c = "B" -> "b" [] OTHER -> c

\* str.lower(); the markers are kept as they are
Lower(s) == [i \in 1..Len(s) |-> IF s[i].k = "ch" THEN Ch(LowerCh(s[i].c)) ELSE s[i]]

Sep == <<Ch("\n"), Ch("\n")>>

\* "\n\n".join(parts)
RECURSIVE Join(_)
Join(parts) ==
  IF parts = <<>> THEN <<>>
  ELSE IF Len(parts) = 1 THEN parts[1]
  ELSE parts[1] \o Sep \o Join(Tail(parts))

Take(s, n) == SubSeq(s, 1, IF n < Len(s) THEN n ELSE Len(s))

\* len(re.findall(r"\*\*Pergunta \d+:", text))
CountMarkers(text) == Cardinality({i \in 1..Len(text) : text[i].k \in {"num", "open"}})

\* re.findall(r"(<marker>.*?)(?=<marker>|\Z)", text, re.DOTALL) for the marker
\* kind mk: every match runs from one marker up to the next one or the end
MarkerPositions(text, mk) == {i \in 1..Len(text) : text[i].k = mk}

NextMarker(text, mk, i) ==
  LET later == {j \in MarkerPositions(text, mk) : j > i}
  IN IF later = {} THEN Len(text) + 1
     ELSE CHOOSE j \in later : \A j2 \in later : j <= j2

RECURSIVE MatchesFrom(_, _, _)
MatchesFrom(text, mk, i) ==
  IF i > Len(text) THEN <<>>
  ELSE LET nx == NextMarker(text, mk, i)
       IN <<SubSeq(text, i, nx - 1)>> \o MatchesFrom(text, mk, nx)

FindAll(text, mk) == MatchesFrom(text, mk, NextMarker(text, mk, 0))


\* ------------------------------------------------------------------------
\* qa_generator.py: pure functions
\* ------------------------------------------------------------------------
\* the breakpoints taken with >= instead of >
dynamic_chunk_size_Inclusive(text_length) ==
  IF text_length >= 200000 THEN 30000
  ELSE IF text_length >= 100000 THEN 20000
  ELSE INITIAL_CHUNK_SIZE

dynamic_chunk_size(text_length) ==
  IF text_length > 200000 THEN 30000
  ELSE IF text_length > 100000 THEN 20000
  ELSE INITIAL_CHUNK_SIZE

\* RecursiveCharacterTextSplitter.split_text, by the lengths of its pieces:
\* pieces of at most size characters, consecutive pieces sharing overlap
RECURSIVE SplitLengths(_, _, _)
SplitLengths(len, size, overlap) ==
  IF len <= size THEN <<len>>
  ELSE <<size>> \o SplitLengths(len - (size - overlap), size, overlap)

\* chunk_document: the lengths of the chunks; splitterOk = FALSE is the
\* except branch, which returns the whole text as one chunk
chunk_document(d, splitterOk) ==
  IF d.len = 0 \/ d.ws THEN <<>>
  ELSE IF splitterOk
       THEN LET size == dynamic_chunk_size(d.len)
            IN SplitLengths(d.len, size, size \div 10)
       ELSE <<d.len>>

Max(a, b) == IF a >= b THEN a ELSE b
Min(a, b) == IF a <= b THEN a ELSE b

\* the quota with a floor of 2 instead of 1
QuestionsPerChunk_Min2(num_questions, total_chunks) ==
  Max(2, num_questions \div total_chunks)

\* params['questions_per_chunk'] of the chunked path
QuestionsPerChunk(num_questions, total_chunks) ==
  Max(1, num_questions \div total_chunks)

\* the loop of clean_qa_content over matches[:num_questions]
RECURSIVE CleanLoop(_, _, _)
CleanLoop(ms, seen, unique_qas) ==
  IF ms = <<>> THEN unique_qas
  ELSE LET clean_match == Strip(CollapseWS(Head(ms)))
       IN IF clean_match \notin seen /\ TextLen(clean_match) > MinRecordLen
          THEN CleanLoop(Tail(ms), seen \cup {clean_match},
                         Append(unique_qas, Strip(Head(ms))))
          ELSE CleanLoop(Tail(ms), seen, unique_qas)

clean_qa_content(content, num_questions) ==
  IF content = <<>> THEN <<>>
  ELSE LET numbered == FindAll(content, "num")
           matches == IF numbered = <<>> THEN FindAll(content, "plain") ELSE numbered
       IN Join(CleanLoop(Take(matches, num_questions), {}, <<>>))

\* qa_to_documents: the records a caller reads out of a returned text
qa_to_documents(qa_content) ==
  IF qa_content = <<>> THEN <<>>
  ELSE LET qa_pairs == FindAll(qa_content, "num")
       IN [i \in 1..Len(qa_pairs) |-> Strip(qa_pairs[i])]

\* variant: tops up also when the count has just reached the target
NeedsTopUp_Inclusive(qa_count, num_questions) == qa_count <= num_questions

\* the condition of the top-up branch of generate_qa_pairs
NeedsTopUp(qa_count, num_questions) == qa_count < num_questions

\* variant: any failed attempt is repeated until MAX_RETRIES attempts were made
RetryAfter_AnyFailure(out, n) == out # "ok" /\ n < MAX_RETRIES

\* what process_chunk_simple does after a generation attempt that ended with
\* outcome out, the n-th for its chunk: TRUE = attempt again.  Both except
\* branches return "", so no outcome leads to another attempt.
RetryAfter(out, n) == FALSE

\* variant: the loop ends after its first chunk
NextChunk_FirstOnly(i, result, total) == total + 1

\* variant: an empty result ends the loop
NextChunk_BreakOnEmpty(i, result, total) == IF result = <<>> THEN total + 1 ELSE i + 1

\* the chunk the loop of generate_qa_pairs goes to after chunk i gave result
\* (of total chunks): the next one, whatever the result
NextChunk(i, result, total) == i + 1

\* the text process_chunk_simple / generate_simple_qa hand back
ResultText(o) == IF o.kind = "ok" THEN o.text ELSE <<>>

\* ------------------------------------------------------------------------
\* Inputs: documents and behaviours of the generation capability
\* ------------------------------------------------------------------------
Doc(len, ws) == [len |-> len, ws |-> ws]

Docs ==
  {Doc(0, FALSE), Doc(10, TRUE), Doc(3000, FALSE), Doc(4999, FALSE),
   Doc(5000, FALSE), Doc(6000, TRUE), Doc(20000, FALSE), Doc(30000, FALSE)}

BodyA == <<Ch(" "), Ch("a"), Ch("a"), Ch("a"), Ch("a"), Ch("a"), Ch("a")>>
BodyAUpper == <<Ch(" "), Ch("A"), Ch("a"), Ch("a"), Ch("a"), Ch("a"), Ch("a")>>
BodyAWide == <<Ch(" "), Ch("\n"), Ch("a"), Ch("a"), Ch("a"), Ch("a"), Ch("a"), Ch("a")>>
BodyB == <<Ch(" "), Ch("b"), Ch("b"), Ch("b"), Ch("b"), Ch("b"), Ch("b")>>
BodyShort == <<Ch(" "), Ch("a")>>

Item(n, body) == <<Marker(n)>> \o body

\* texts the generation capability may return, whatever count was requested
Responses ==
  { <<>>,
    <<Ch(" ")>>,
    Item(1, BodyA),
    Item(1, BodyAUpper),
    <<OpenMarker(1)>> \o BodyB,
    Item(1, BodyA) \o Sep \o Item(2, BodyB),
    Item(1, BodyA) \o Sep \o Item(2, BodyB) \o Sep \o Item(3, BodyA)
                   \o Sep \o Item(4, BodyB) }

Outcomes ==
  [kind : {"ok"}, text : Responses]
    \cup {[kind |-> "timeout", text |-> <<>>], [kind |-> "error", text |-> <<>>]}

\* ------------------------------------------------------------------------
\* State
\* ------------------------------------------------------------------------
VARIABLES
  doc,          \* doc_text of the run: its length, whether it is whitespace only
  target,       \* params['num_questions']
  qa_pc,        \* position of generate_qa_pairs
  chunks,       \* lengths of the chunks of the run
  chunk_size,   \* chunk_size of chunk_document (0: not computed)
  idx,          \* index of the chunk the loop is at
  attempt,      \* generation attempts already made for that chunk
  qpc,          \* params['questions_per_chunk']
  qa_results,   \* texts appended by the chunk loop
  full_content, \* the combined buffer
  calls,        \* log of the generation calls issued so far
  ret,          \* the text generate_qa_pairs returned
  raised,       \* TRUE iff an exception left generate_qa_pairs
  s_variant,    \* which multi-collection search runs
  s_threshold,  \* similarity_threshold of the request, in tenths
  s_limit,      \* limit / top_k of the request
  s_group,      \* group_by_document of the request
  store_points, \* per collection, the points it ranks for the query
  s_pc,         \* position of the search
  s_i,          \* the collection the loop is at
  all_results,  \* hits merged so far
  s_status,     \* per collection: "pending", "ok", "failed" or "skipped"
  s_raw,        \* per collection, the hits its backing search found
  s_returned,   \* per collection, the hits its search returned
  s_ret,        \* the hits the search returned to its caller
  s_error,      \* TRUE iff the search ended in an error instead of a result
  s_env,        \* per collection: how its backing service answered
  \* --- QdrantVectorStore ---
  colls,        \* per collection name: exists, metadata point, its
                \* document_count, and the document held by each point id
  inserted,     \* per collection name: the documents inserted since it was created
  next_doc,     \* the number of the next document handed to insert_documents
  v_steps,      \* number of store operations so far
  v_last,       \* the last store operation and how it ended
  \* --- RAGChatService ---
  sessions,     \* per session id: exists, and the roles of its messages
  c_count,      \* number of chat calls so far
  c_result,     \* what the last chat call returned
  c_trace       \* what the last chat call did: session asked for, N8N
                \* outcome, whether local retrieval ran

qaVars ==
  <<doc, target, qa_pc, chunks, chunk_size, idx, attempt, qpc, qa_results,
    full_content, calls, ret, raised>>

sVars ==
  <<s_variant, s_threshold, s_limit, s_group, store_points, s_pc, s_i,
    all_results, s_status, s_raw, s_returned, s_ret, s_error, s_env>>

kVars == <<colls, inserted, next_doc, v_steps, v_last>>

cVars == <<sessions, c_count, c_result, c_trace>>

vars == <<qaVars, sVars, kVars, cVars>>

\* no store operation and no chat call is part of the run
KIdle ==
  /\ colls = <<>>
  /\ inserted = <<>>
  /\ next_doc = 0
  /\ v_steps = 0
  /\ v_last = <<>>

CIdle ==
  /\ sessions = <<>>
  /\ c_count = 0
  /\ c_result = <<>>
  /\ c_trace = <<>>

\* no search is running
SIdle ==
  /\ s_variant = "none"
  /\ s_threshold = 0
  /\ s_limit = 1
  /\ s_group = FALSE
  /\ store_points = <<>>
  /\ s_pc = "idle"
  /\ s_i = 0
  /\ all_results = <<>>
  /\ s_status = <<>>
  /\ s_raw = <<>>
  /\ s_returned = <<>>
  /\ s_ret = <<>>
  /\ s_error = FALSE
  /\ s_env = <<>>

QAInit ==
  /\ doc \in Docs
  /\ target \in 1..MaxTarget
  /\ qa_pc = "start"
  /\ chunks = <<>>
  /\ chunk_size = 0
  /\ idx = 0
  /\ attempt = 0
  /\ qpc = 0
  /\ qa_results = <<>>
  /\ full_content = <<>>
  /\ calls = <<>>
  /\ ret = <<>>
  /\ raised = FALSE
  /\ SIdle
  /\ KIdle
  /\ CIdle

Call(kind, chunk, num, textlen, o) ==
  [kind |-> kind, chunk |-> chunk, num |-> num, textlen |-> textlen,
   out |-> o.kind, text |-> o.text]

\* generate_qa_pairs up to its first generation call
QAStart ==
  /\ qa_pc = "start"
  /\ UNCHANGED <<doc, target, attempt, qa_results, full_content, calls, ret, raised>>
  /\ UNCHANGED <<sVars, kVars, cVars>>
  /\ IF doc.len = 0 \/ doc.ws
     THEN /\ qa_pc' = "done"
          /\ UNCHANGED <<chunks, chunk_size, idx, qpc>>
     ELSE IF doc.len < SmallTextLimit
     THEN /\ qa_pc' = "small"
          /\ qpc' = target
          /\ chunks' = <<doc.len>>
          /\ idx' = 1
          /\ UNCHANGED chunk_size
     ELSE \E splitterOk \in BOOLEAN :
            LET cs == chunk_document(doc, splitterOk)
            IN IF cs = <<>>
               THEN /\ qa_pc' = "done"
                    /\ UNCHANGED <<chunks, chunk_size, idx, qpc>>
               ELSE /\ qa_pc' = "chunks"
                    /\ chunks' = cs
                    /\ chunk_size' = dynamic_chunk_size(doc.len)
                    /\ idx' = 1
                    /\ qpc' = QuestionsPerChunk(target, Len(cs))

\* small-text path: one process_chunk_simple over the whole text, returned as is
QASmallCall ==
  /\ qa_pc = "small"
  /\ \E o \in Outcomes :
       /\ calls' = Append(calls, Call("chunk", idx, qpc, chunks[idx], o))
       /\ IF RetryAfter(o.kind, attempt + 1)
          THEN /\ attempt' = attempt + 1
               /\ UNCHANGED <<qa_pc, ret>>
          ELSE /\ attempt' = 0
               /\ ret' = ResultText(o)
               /\ qa_pc' = "done"
  /\ UNCHANGED <<doc, target, chunks, chunk_size, idx, qpc, qa_results, full_content, raised>>
  /\ UNCHANGED <<sVars, kVars, cVars>>

\* the tail of generate_qa_pairs once the buffer is complete
Finalize(content) ==
  /\ ret' = clean_qa_content(content, target)
  /\ qa_pc' = "done"

\* one iteration of the chunk loop; after the last chunk, the join, the
\* marker count and, when no top-up is due, the final cleaning
QAChunkCall ==
  /\ qa_pc = "chunks"
  /\ \E o \in Outcomes :
       /\ calls' = Append(calls, Call("chunk", idx, qpc, chunks[idx], o))
       /\ IF RetryAfter(o.kind, attempt + 1)
          THEN /\ attempt' = attempt + 1
               /\ UNCHANGED <<qa_pc, ret, idx, qa_results, full_content>>
          ELSE LET result == ResultText(o)
                   results == IF NonBlank(result) THEN Append(qa_results, result)
                              ELSE qa_results
               IN /\ attempt' = 0
                  /\ qa_results' = results
                  /\ idx' = NextChunk(idx, result, Len(chunks))
                  /\ IF NextChunk(idx, result, Len(chunks)) <= Len(chunks)
                     THEN UNCHANGED <<qa_pc, ret, full_content>>
                     ELSE IF results = <<>>
                     THEN /\ qa_pc' = "done"
                          /\ UNCHANGED <<ret, full_content>>
                     ELSE /\ full_content' = Join(results)
                          /\ IF NeedsTopUp(CountMarkers(Join(results)), target)
                             THEN /\ qa_pc' = "topup"
                                  /\ UNCHANGED ret
                             ELSE Finalize(Join(results))
  /\ UNCHANGED <<doc, target, chunks, chunk_size, qpc, raised>>
  /\ UNCHANGED <<sVars, kVars, cVars>>

\* generate_simple_qa over the last TailWindow characters, then the cleaning
QATopUp ==
  /\ qa_pc = "topup"
  /\ \E o \in Outcomes :
       LET num_needed == target - CountMarkers(full_content)
           additional == ResultText(o)
           content == IF additional # <<>> THEN full_content \o Sep \o additional
                      ELSE full_content
       IN /\ calls' = Append(calls, Call("topup", 0, num_needed,
                                         Min(doc.len, TailWindow), o))
          /\ full_content' = content
          /\ Finalize(content)
  /\ UNCHANGED <<doc, target, chunks, chunk_size, idx, attempt, qpc, qa_results, raised>>
  /\ UNCHANGED <<sVars, kVars, cVars>>

QANext == QAStart \/ QASmallCall \/ QAChunkCall \/ QATopUp

SpecQA == QAInit /\ [][QANext]_vars

\* a run that has not returned: exactly the states in which QANext is enabled
QARunning == qa_pc \in {"start", "small", "chunks", "topup"}

\* generate_qa_pairs is straight-line code around one bounded loop, and every
\* generation call ends (with a result, an error or after REQUEST_TIMEOUT):
\* a run that can take a step takes it.  This is WF_vars(QANext) with
\* ENABLED <<QANext>>_vars written out as QARunning.
QAFairness == []<>(~QARunning) \/ []<><<QANext>>_vars

SpecQALive == QAInit /\ [][QANext]_vars /\ QAFairness

\* ------------------------------------------------------------------------
\* app.py: the generate_qa endpoint around generate_qa_pairs
\* ------------------------------------------------------------------------
\* the response of generate_qa for content d, given what generate_qa_pairs
\* did when called: exc = it raised, qa_content = the text it returned.
\* Blank content is answered before generate_qa_pairs is called.
generate_qa(d, exc, qa_content) ==
  IF d.len = 0 THEN [status |-> 400, success |-> FALSE, qa_count |-> 0]
  ELSE IF d.ws THEN [status |-> 400, success |-> FALSE, qa_count |-> 0]
  ELSE IF exc THEN [status |-> 500, success |-> FALSE, qa_count |-> 0]
  ELSE IF qa_content = <<>> THEN [status |-> 400, success |-> FALSE, qa_count |-> 0]
  ELSE IF ~NonBlank(qa_content) THEN [status |-> 400, success |-> FALSE, qa_count |-> 0]
  ELSE [status |-> 200, success |-> TRUE,
        qa_count |-> Len(qa_to_documents(qa_content))]

\* ------------------------------------------------------------------------
\* chunk_document called on its own
\* ------------------------------------------------------------------------
MaxLenUnits == 45

\* text lengths at and next to every multiple of 5,000
ChunkDocs ==
  {Doc(0, FALSE)} \cup
  {Doc(k * 5000 + d, ws) : k \in 1..MaxLenUnits, d \in {-1, 0, 1}, ws \in BOOLEAN}

ChunkInit ==
  /\ doc \in ChunkDocs
  /\ target = 1
  /\ qa_pc = "split"
  /\ chunks = <<>>
  /\ chunk_size = 0
  /\ idx = 0
  /\ attempt = 0
  /\ qpc = 0
  /\ qa_results = <<>>
  /\ full_content = <<>>
  /\ calls = <<>>
  /\ ret = <<>>
  /\ raised = FALSE
  /\ SIdle
  /\ KIdle
  /\ CIdle

\* chunk_document(text): splitterOk = FALSE is a splitter that raises
ChunkDocument ==
  /\ qa_pc = "split"
  /\ \E splitterOk \in BOOLEAN :
       /\ chunks' = chunk_document(doc, splitterOk)
       /\ chunk_size' = IF doc.len = 0 \/ doc.ws THEN 0
                        ELSE dynamic_chunk_size(doc.len)
       /\ qa_pc' = IF splitterOk \/ doc.len = 0 \/ doc.ws THEN "chunked"
                   ELSE "chunked_fallback"
  /\ UNCHANGED <<doc, target, idx, attempt, qpc, qa_results, full_content,
                 calls, ret, raised>>
  /\ UNCHANGED <<sVars, kVars, cVars>>

ChunkNext == ChunkDocument

SpecChunk == ChunkInit /\ [][ChunkNext]_vars


\* ------------------------------------------------------------------------
\* Similarity search: bounds and inputs
\* ------------------------------------------------------------------------
NumStores == 3
MaxLimit == 2

\* top_k of the WebSocket handler
WsTopK == 10

\* scores in tenths: 10 stands for 1.0
Thresholds == {0, 8, 10}

\* a stored point: doc = 0 stands for a payload without document_id
Point(id, score, d) == [id |-> id, score |-> score, doc |-> d]

\* what a collection would rank for the query, best first
PointLists ==
  { <<>>,
    <<Point(1, 9, 1), Point(2, 8, 1), Point(3, 5, 2)>>,
    <<Point(1, 10, 2), Point(2, 9, 1), Point(3, 9, 0), Point(4, 8, 2)>>,
    <<Point(1, 8, 1), Point(2, 8, 2), Point(3, 8, 1), Point(4, 7, 0)>>,
    <<Point(1, 9, 0), Point(2, 7, 1)>> }

StoreIds == 1..NumStores

Variants == {"semantic", "chat_named", "chat_all", "ws_named", "ws_all"}

\* ------------------------------------------------------------------------
\* Similarity search: pure functions
\* ------------------------------------------------------------------------
\* list.sort(key=score, reverse=True): stable, so equal scores keep their order
\* variant: a sort that is not stable, a hit goes before the hits of its score
RECURSIVE InsertDesc_Unstable(_, _)
InsertDesc_Unstable(sorted, h) ==
  IF sorted = <<>> THEN <<h>>
  ELSE IF Head(sorted).score > h.score
       THEN <<Head(sorted)>> \o InsertDesc_Unstable(Tail(sorted), h)
       ELSE <<h>> \o sorted

RECURSIVE InsertDesc(_, _)
InsertDesc(sorted, h) ==
  IF sorted = <<>> THEN <<h>>
  ELSE IF Head(sorted).score >= h.score
       THEN <<Head(sorted)>> \o InsertDesc(Tail(sorted), h)
       ELSE <<h>> \o sorted

RECURSIVE SortDesc(_)
SortDesc(hits) ==
  IF hits = <<>> THEN <<>>
  ELSE InsertDesc(SortDesc(SubSeq(hits, 1, Len(hits) - 1)), hits[Len(hits)])

AtLeast(hits, threshold) ==
  LET Keep(h) == h.score >= threshold
  IN SelectSeq(hits, Keep)

\* QdrantClient.search(limit, score_threshold): the best limit points whose
\* score reaches the threshold, best first
ClientSearch(points, limit, score_threshold) ==
  Take(AtLeast(SortDesc(points), score_threshold), limit)

\* variant: on equal scores the later hit replaces the earlier one
Better_OrEqual(new, old) == new.score >= old.score

\* the replacement test of group_results_by_document
Better(new, old) == new.score > old.score

\* variant: every hit is taken to carry a document_id
HasDocumentId_Always(r) == TRUE

\* result.metadata and 'document_id' in result.metadata
HasDocumentId(r) == r.doc # 0

\* best_by_document after the loop of group_results_by_document, as the
\* sequence of its values in insertion order of their keys
RECURSIVE GroupLoop(_, _)
GroupLoop(results, best) ==
  IF results = <<>> THEN best
  ELSE LET r == Head(results)
           at == {i \in 1..Len(best) : best[i].doc = r.doc}
       IN IF ~HasDocumentId(r) THEN GroupLoop(Tail(results), best)
          ELSE IF at = {} THEN GroupLoop(Tail(results), Append(best, r))
          ELSE LET i == CHOOSE i \in at : TRUE
               IN IF Better(r, best[i])
                  THEN GroupLoop(Tail(results), [best EXCEPT ![i] = r])
                  ELSE GroupLoop(Tail(results), best)

group_results_by_document(results, limit) ==
  IF results = <<>> THEN results
  ELSE Take(SortDesc(GroupLoop(results, <<>>)), limit)

\* the hits of one store, tagged with the store they come from
Tag(hits, store) ==
  [i \in 1..Len(hits) |->
     [store |-> store, id |-> hits[i].id, score |-> hits[i].score, doc |-> hits[i].doc]]

\* variant: the threshold of the request is not handed to the search
qdrant_hits_NoThreshold(points, limit, threshold, group) ==
  ClientSearch(points, IF group THEN limit * 3 ELSE limit, 0)

\* search_results of search_qdrant: search_limit is three times the limit
\* when grouping, and the threshold of the request is passed on
qdrant_hits(points, limit, threshold, group) ==
  ClientSearch(points, IF group THEN limit * 3 ELSE limit, threshold)

\* what search_qdrant returns from its search_results
search_qdrant(results, limit, group) ==
  IF group THEN group_results_by_document(results, limit) ELSE results

\* the keyword parameters of QdrantVectorStore.search_similar
SearchSimilarParams == {"collection_name", "query", "top_k", "embedding_model"}

\* a call with these keyword arguments binds (otherwise: TypeError)
SearchSimilarAccepts(kwargs) == kwargs \subseteq SearchSimilarParams

\* QdrantVectorStore.search_similar once the call is bound: no threshold
search_similar(points, top_k) == ClientSearch(points, top_k, 0)

\* the keys of the entries QdrantVectorStore.list_collections returns
CollectionInfoKeys ==
  {"name", "embedding_model", "description", "created_at", "document_count",
   "model_config"}

\* collection_info.get("exists_in_qdrant")
ExistsInQdrant == "exists_in_qdrant" \in CollectionInfoKeys

\* variant: a failed collection ends the loop
NextStore_BreakOnFailure(i, failed, total) == IF failed THEN total + 1 ELSE i + 1

\* the collection the loop goes to after collection i (of total)
NextStore(i, failed, total) == i + 1

\* ------------------------------------------------------------------------
\* Similarity search: the runs
\* ------------------------------------------------------------------------
\* no synthesis is running
QAIdle ==
  /\ doc = Doc(0, FALSE)
  /\ target = 1
  /\ qa_pc = "idle"
  /\ chunks = <<>>
  /\ chunk_size = 0
  /\ idx = 0
  /\ attempt = 0
  /\ qpc = 0
  /\ qa_results = <<>>
  /\ full_content = <<>>
  /\ calls = <<>>
  /\ ret = <<>>
  /\ raised = FALSE

SInit ==
  /\ QAIdle
  /\ KIdle
  /\ CIdle
  /\ s_variant \in Variants
  /\ s_threshold \in Thresholds
  /\ s_limit \in 1..MaxLimit
  /\ s_group \in (IF s_variant = "semantic" THEN BOOLEAN ELSE {FALSE})
  /\ store_points \in [StoreIds -> PointLists]
  /\ s_pc = "start"
  /\ s_i = 0
  /\ all_results = <<>>
  /\ s_status = [st \in StoreIds |-> "pending"]
  /\ s_raw = [st \in StoreIds |-> <<>>]
  /\ s_returned = [st \in StoreIds |-> <<>>]
  /\ s_ret = <<>>
  /\ s_error = FALSE
  /\ s_env = [st \in StoreIds |-> "pending"]

\* the keyword arguments each caller hands to search_similar
SearchKwargs(variant) ==
  CASE variant = "chat_named" -> {"similarity_threshold"}
    [] variant = "chat_all" -> {}
    [] OTHER -> {"collection_name", "query", "top_k", "similarity_threshold"}

\* top_k each caller hands to search_similar
SearchTopK(variant) == IF variant \in {"ws_named", "ws_all"} THEN WsTopK ELSE s_limit

\* what the loop body does for collection st when its backing call ends
\* with env: the status of the collection, the hits the backing search
\* found and the hits the collection contributes
StoreOutcome(variant, st, env) ==
  IF variant = "semantic"
  THEN CASE env = "other_provider" -> [status |-> "skipped", raw |-> <<>>, hits |-> <<>>]
         [] env = "unavailable" -> [status |-> "failed", raw |-> <<>>, hits |-> <<>>]
         [] OTHER ->
              LET found == Tag(qdrant_hits(store_points[st], s_limit,
                                           s_threshold, s_group), st)
              IN [status |-> "ok", raw |-> found,
                  hits |-> search_qdrant(found, s_limit, s_group)]
  ELSE IF variant = "chat_all" /\ ~ExistsInQdrant
  THEN [status |-> "skipped", raw |-> <<>>, hits |-> <<>>]
  ELSE IF ~SearchSimilarAccepts(SearchKwargs(variant)) \/ env = "unavailable"
  THEN [status |-> "failed", raw |-> <<>>, hits |-> <<>>]
  ELSE LET found == Tag(search_similar(store_points[st], SearchTopK(variant)), st)
       IN [status |-> "ok", raw |-> found, hits |-> found]

\* variant: the merged hits are sorted but never cut
Aggregate_NoCut(variant, hits) == SortDesc(hits)

\* the sort and cut at the end of each search
Aggregate(variant, hits) ==
  CASE variant = "semantic" ->
         IF s_group THEN group_results_by_document(SortDesc(hits), s_limit)
         ELSE Take(SortDesc(hits), s_limit)
    [] variant \in {"chat_named", "chat_all"} -> Take(SortDesc(hits), s_limit)
    [] OTHER -> SortDesc(hits)

\* each search up to its loop: list_collections of the searches over all
\* collections may fail, which ends the search
SStart ==
  /\ s_pc = "start"
  /\ \E listOk \in BOOLEAN :
       IF s_variant \in {"chat_all", "ws_all"} /\ ~listOk
       THEN /\ s_pc' = "done"
            /\ s_error' = (s_variant = "ws_all")
            /\ UNCHANGED s_i
       ELSE /\ s_pc' = "loop"
            /\ s_i' = 1
            /\ UNCHANGED s_error
  /\ UNCHANGED <<s_variant, s_threshold, s_limit, s_group, store_points,
                 all_results, s_status, s_raw, s_returned, s_ret, s_env>>
  /\ UNCHANGED <<qaVars, kVars, cVars>>

\* one iteration of the loop over the collections; after the last one, the
\* sort, the optional grouping and the cut
SSearchStep ==
  /\ s_pc = "loop"
  /\ \E env \in {"ok", "unavailable", "other_provider"} :
       /\ env = "other_provider" => s_variant = "semantic"
       /\ LET o == StoreOutcome(s_variant, s_i, env)
              merged == all_results \o o.hits
              nxt == NextStore(s_i, o.status = "failed", NumStores)
          IN /\ s_env' = [s_env EXCEPT ![s_i] = env]
             /\ s_status' = [s_status EXCEPT ![s_i] = o.status]
             /\ s_raw' = [s_raw EXCEPT ![s_i] = o.raw]
             /\ s_returned' = [s_returned EXCEPT ![s_i] = o.hits]
             /\ all_results' = merged
             /\ s_i' = nxt
             /\ IF nxt <= NumStores
                THEN UNCHANGED <<s_pc, s_ret>>
                ELSE /\ s_pc' = "done"
                     /\ s_ret' = Aggregate(s_variant, merged)
  /\ UNCHANGED <<s_variant, s_threshold, s_limit, s_group, store_points, s_error>>
  /\ UNCHANGED <<qaVars, kVars, cVars>>

SNext == SStart \/ SSearchStep

SpecSearch == SInit /\ [][SNext]_vars

\* ------------------------------------------------------------------------
\* Properties of the synthesis run
\* ------------------------------------------------------------------------
IsBlankDoc == doc.len = 0 \/ doc.ws

IsChunkCall(c) == c.kind = "chunk"
IsTopUpCall(c) == c.kind = "topup"
IsProducingCall(c) == c.kind = "chunk" /\ c.out = "ok" /\ NonBlank(c.text)

ChunkCalls == SelectSeq(calls, IsChunkCall)
TopUpCalls == SelectSeq(calls, IsTopUpCall)

\* the texts the first round produced, in call order
FirstRoundTexts ==
  LET producing == SelectSeq(calls, IsProducingCall)
  IN [i \in 1..Len(producing) |-> producing[i].text]

\* the number of items the first round produced, counted by its markers
FirstRoundCount == CountMarkers(Join(FirstRoundTexts))

\* whitespace-collapsed lowercase text of a record
NormalizedSignature(rec) == Lower(Strip(CollapseWS(rec)))

Records == qa_to_documents(ret)

Distinct(f) == \A i, j \in DOMAIN f : i # j => f[i] # f[j]

IsPrefix(s, t) == Len(s) <= Len(t) /\ SubSeq(t, 1, Len(s)) = s

\* C1: the result of generate_qa_pairs holds at most target_count records
\* and no two of them share a normalized signature.
C1_AtMostTargetDistinct ==
  qa_pc = "done" =>
    /\ Len(Records) <= target
    /\ Distinct([i \in 1..Len(Records) |-> NormalizedSignature(Records[i])])

\* C2: whenever the first round yields fewer items than target_count, one
\* supplementary call requests target_count minus the produced count over a
\* tail window of the original text.
C2_TopUpOnShortfall ==
  (qa_pc = "done" /\ ChunkCalls # <<>> /\ FirstRoundCount < target) =>
    /\ Len(TopUpCalls) = 1
    /\ TopUpCalls[1].num = target - FirstRoundCount
    /\ TopUpCalls[1].textlen = Min(doc.len, TailWindow)

\* C3: a run makes at most one top-up call, and none when the produced count
\* already reaches target_count.
C3_AtMostOneTopUp ==
  /\ Len(TopUpCalls) <= 1
  /\ TopUpCalls # <<>> => FirstRoundCount < target

\* a run that topped up and ended with the buffer still short of the target
C3_Witness ==
  /\ qa_pc = "done"
  /\ Len(TopUpCalls) = 1
  /\ TopUpCalls[1].out = "ok"
  /\ CountMarkers(full_content) < target

\* C4: a non-blank input shorter than 5,000 characters is one chunk, gets
\* one first-round call over the whole text requesting target_count, and the
\* result has at most target_count records.
C4_SmallTextOneChunk ==
  (qa_pc = "done" /\ ~IsBlankDoc /\ doc.len < SmallTextLimit) =>
    /\ chunks = <<doc.len>>
    /\ Len(ChunkCalls) = 1
    /\ ChunkCalls[1].num = target
    /\ ChunkCalls[1].textlen = doc.len
    /\ Len(Records) <= target

\* the number of generation attempts made so far for chunk i
Attempts(log, i) == Cardinality({j \in 1..Len(log) : log[j].kind = "chunk" /\ log[j].chunk = i})

C6_ChunkFailuresIsolated ==
  /\ raised = FALSE
  /\ (qa_pc \in {"topup", "done"} /\ ~IsBlankDoc /\ doc.len >= SmallTextLimit) =>
       /\ \A i \in 1..Len(chunks) : Attempts(calls, i) >= 1
       /\ qa_results = FirstRoundTexts
       /\ FirstRoundTexts # <<>> => IsPrefix(Join(FirstRoundTexts), full_content)
       /\ (\A j \in 1..Len(calls) : calls[j].out # "ok") => (qa_pc = "done" /\ ret = <<>>)

\* a run of several chunks in which one chunk failed and a later one
\* produced output that is in the buffer
C6_Witness ==
  /\ qa_pc = "done"
  /\ \E j \in 1..(Len(calls) - 1) :
       /\ calls[j].kind = "chunk" /\ calls[j].out # "ok"
       /\ IsProducingCall(calls[j + 1])
       /\ qa_results = <<calls[j + 1].text>>
  /\ ret # <<>>


\* ------------------------------------------------------------------------
\* Properties of the multi-collection search
\* ------------------------------------------------------------------------
RECURSIVE Flatten(_, _)
Flatten(f, st) == IF st > NumStores THEN <<>> ELSE f[st] \o Flatten(f, st + 1)

\* the hits the backing searches found, in flattening order
InputHits == Flatten(s_raw, 1)

InResult(h) == \E i \in 1..Len(s_ret) : s_ret[i] = h

\* the cut each search applies to its merged hits (0: none)
ResultLimit == IF s_variant \in {"ws_named", "ws_all"} THEN 0 ELSE s_limit

\* C7: every hit of a multi-collection result has score >= the threshold of
\* the request; with threshold 1.0 and no point of score 1.0 the result is
\* empty.
C7_ThresholdLaw ==
  s_pc = "done" =>
    /\ \A i \in 1..Len(s_ret) : s_ret[i].score >= s_threshold
    /\ (/\ s_threshold = 10
        /\ \A st \in StoreIds : \A k \in 1..Len(store_points[st]) :
             store_points[st][k].score < 10) => s_ret = <<>>

\* a non-empty result of a search whose threshold kept a stored point out
C7_Witness ==
  /\ s_pc = "done"
  /\ s_ret # <<>>
  /\ \E st \in StoreIds :
       /\ s_status[st] = "ok"
       /\ \E k \in 1..Len(store_points[st]) : store_points[st][k].score < s_threshold

\* C8: with group_by_document the output has at most one hit per
\* document_id, no more hits than distinct document_id values among the input
\* hits, and each retained hit is the first input hit of maximum score of its
\* document.
C8_GroupingLaw ==
  (s_pc = "done" /\ s_group) =>
    /\ \A i, j \in 1..Len(s_ret) : i # j => s_ret[i].doc # s_ret[j].doc
    /\ Len(s_ret) <= Cardinality({InputHits[k].doc : k \in 1..Len(InputHits)} \ {0})
    /\ \A i \in 1..Len(s_ret) :
         \E k \in 1..Len(InputHits) :
           /\ InputHits[k] = s_ret[i]
           /\ \A m \in 1..Len(InputHits) :
                InputHits[m].doc = s_ret[i].doc =>
                  \/ InputHits[m].score < s_ret[i].score
                  \/ InputHits[m].score = s_ret[i].score /\ m >= k

\* a grouped result that kept the better of two hits of one document and
\* the first of two hits of one document with equal scores
C8_Witness ==
  /\ s_pc = "done"
  /\ s_group
  /\ \E k, m \in 1..Len(InputHits) :
       /\ InputHits[k].doc = InputHits[m].doc
       /\ InputHits[k].score > InputHits[m].score
       /\ InResult(InputHits[k])
  /\ \E k, m \in 1..Len(InputHits) :
       /\ k < m
       /\ InputHits[k].doc = InputHits[m].doc
       /\ InputHits[k].score = InputHits[m].score
       /\ InResult(InputHits[k])

\* hit h is absent from the result for a reason other than a failure: the
\* cut displaced it, or grouping dropped it
Displaced(h) ==
  \/ /\ ResultLimit > 0
     /\ Len(s_ret) = ResultLimit
     /\ \A i \in 1..Len(s_ret) : s_ret[i].score >= h.score
  \/ /\ s_group
     /\ \/ h.doc = 0
        \/ \E i \in 1..Len(s_ret) : s_ret[i].doc = h.doc /\ s_ret[i].score >= h.score

\* C9: when the search of a collection fails, the multi-collection search
\* does not raise, still visits every other collection, and merges every hit
\* the other collections returned, up to the cut and the grouping.
C9_FailureIsolation ==
  (s_pc = "done" /\ \E st \in StoreIds : s_status[st] = "failed") =>
    /\ s_error = FALSE
    /\ \A st \in StoreIds : s_status[st] # "pending"
    /\ \A st \in StoreIds : \A k \in 1..Len(s_returned[st]) :
         InResult(s_returned[st][k]) \/ Displaced(s_returned[st][k])

\* a search in which a collection failed and a later one contributed a hit
C9_Witness ==
  /\ s_pc = "done"
  /\ \E a, b \in StoreIds :
       /\ a < b
       /\ s_status[a] = "failed"
       /\ s_status[b] = "ok"
       /\ \E i \in 1..Len(s_ret) : s_ret[i].store = b

\* what the caller of a search receives
SearchOutcome == [hits |-> s_ret, error |-> s_error]

\* what a search without any failure and without any match hands back
ZeroMatchOutcome == [hits |-> <<>>, error |-> FALSE]

\* C10: a search in which every collection failed hands its caller an outcome
\* that differs from that of a successful search with zero matches.
C10_FailuresDistinguishable ==
  (s_pc = "done" /\ \A st \in StoreIds : s_status[st] = "failed") =>
    SearchOutcome # ZeroMatchOutcome

\* ------------------------------------------------------------------------
\* Properties of chunk_document
\* ------------------------------------------------------------------------
Chunked == qa_pc \in {"chunked", "chunked_fallback"}

\* C11 as stated: the chunk size is 15,000 for L below 100,000, 20,000 for L
\* from 100,000 to 200,000 with both breakpoints included, and 30,000 for L
\* above 200,000.
C11_StepFunctionClaimed ==
  (Chunked /\ chunk_size # 0) =>
    chunk_size = (IF doc.len < 100000 THEN 15000
                  ELSE IF doc.len <= 200000 THEN 20000
                  ELSE 30000)

\* C11 amended: the chunk size is 15,000 for L up to and including 100,000,
\* 20,000 for L above 100,000 up to and including 200,000, and 30,000 for L
\* above 200,000.
C11_StepFunction ==
  (Chunked /\ chunk_size # 0) =>
    chunk_size = (IF doc.len <= 100000 THEN 15000
                  ELSE IF doc.len <= 200000 THEN 20000
                  ELSE 30000)

\* a text of exactly 100,000 characters has been given its chunk size
C11_Witness ==
  /\ Chunked
  /\ doc.len = 100000
  /\ chunk_size = 15000

\* C12: every chunk returned by chunk_document is at most as long as the
\* chunk size of the input's length bucket, also when the splitter fails.
C12_ChunksWithinBucket ==
  Chunked =>
    \A i \in 1..Len(chunks) : chunks[i] <= dynamic_chunk_size(doc.len)

\* ------------------------------------------------------------------------
\* Properties of the chunked path of generate_qa_pairs
\* ------------------------------------------------------------------------
OnChunkedPath == doc.len >= SmallTextLimit /\ chunks # <<>>

\* C13: on the chunked path every chunk's generation call is given the count
\* max(1, floor(target_count / chunk_count)), the same for all chunks.
C13_PerChunkCount ==
  OnChunkedPath =>
    \A i \in 1..Len(calls) :
      calls[i].kind = "chunk" =>
        calls[i].num = (IF target \div Len(chunks) >= 1
                        THEN target \div Len(chunks) ELSE 1)

\* three chunks and a target of two: the floor is 0 and every chunk asks for 1
C13_Witness ==
  /\ OnChunkedPath
  /\ qa_pc = "done"
  /\ Len(chunks) = 3
  /\ target = 2
  /\ Len(calls) >= 3
  /\ \A i \in 1..3 : calls[i].kind = "chunk" /\ calls[i].chunk = i /\ calls[i].num = 1

\* the records of rs whose signature was not seen before, in first-seen order
RECURSIVE FirstSeen(_, _)
FirstSeen(rs, seen) ==
  IF rs = <<>> THEN <<>>
  ELSE LET sig == NormalizedSignature(Head(rs))
       IN IF sig \in seen THEN FirstSeen(Tail(rs), seen)
          ELSE <<Head(rs)>> \o FirstSeen(Tail(rs), seen \cup {sig})

\* the records of the combined buffer handed to clean_qa_content
BufferRecords == qa_to_documents(full_content)

\* C14: the final result is exactly the first min(target_count, U) distinct
\* records of the combined buffer (uniqueness filter first, truncation second),
\* U being the number of distinct records in the buffer.
C14_DedupThenTruncate ==
  (qa_pc = "done" /\ full_content # <<>>) =>
    LET distinct == FirstSeen(BufferRecords, {})
    IN Records = Take(distinct, Min(target, Len(distinct)))

\* ------------------------------------------------------------------------
\* Properties of the aggregated result
\* ------------------------------------------------------------------------
\* the place of hit h in the flattened list (0: not in it)
FlatPos(h) ==
  IF \E i \in 1..Len(all_results) : all_results[i] = h
  THEN CHOOSE i \in 1..Len(all_results) : all_results[i] = h
  ELSE 0

\* C15: the aggregated result is ordered by score, non-increasing, and hits
\* of equal score keep their flattening order (collection order, then the
\* order returned by the backing search).
C15_SortedStable ==
  s_pc = "done" =>
    \A i, j \in 1..Len(s_ret) :
      i < j =>
        /\ s_ret[i].score >= s_ret[j].score
        /\ s_ret[i].score = s_ret[j].score =>
             (FlatPos(s_ret[i]) # 0 /\ FlatPos(s_ret[i]) < FlatPos(s_ret[j]))

\* two hits of equal score from different collections are both in the result
C15_Witness ==
  /\ s_pc = "done"
  /\ Len(s_ret) >= 2
  /\ s_ret[1].score = s_ret[2].score
  /\ s_ret[1].store < s_ret[2].store
  /\ Len(all_results) > Len(s_ret)

\* the place hit number k of the input takes once the input is ordered by
\* score, equal scores in input order
Rank(k) ==
  1 + Cardinality({m \in 1..Len(InputHits) :
                     \/ InputHits[m].score > InputHits[k].score
                     \/ InputHits[m].score = InputHits[k].score /\ m < k})

\* C16: a hit whose metadata has no document_id never appears in the output
\* when group_by_document is true; when it is false the hit appears unchanged,
\* subject only to threshold, sort and limit.
C16_NoDocumentId ==
  s_pc = "done" =>
    /\ s_group => \A i \in 1..Len(s_ret) : s_ret[i].doc # 0
    /\ ~s_group =>
         \A k \in 1..Len(InputHits) :
           InputHits[k].doc = 0 =>
             /\ InputHits[k].score >= s_threshold
             /\ InResult(InputHits[k]) <=> Rank(k) <= s_limit

\* a grouped result of fewer hits than the limit that left out a hit without
\* document_id of a higher score than a hit it kept
C16_Witness ==
  /\ s_pc = "done"
  /\ s_group
  /\ s_ret # <<>>
  /\ Len(s_ret) < s_limit
  /\ \E k \in 1..Len(InputHits) :
       /\ InputHits[k].doc = 0
       /\ InputHits[k].score > s_ret[Len(s_ret)].score
       /\ ~InResult(InputHits[k])

\* C17: the aggregated result of a multi-collection search never holds more
\* than limit hits, whatever the number of collections searched and with
\* grouping on or off.
C17_AtMostLimit ==
  s_pc = "done" => Len(s_ret) <= s_limit

\* several collections together contributed more hits than the limit and the
\* result holds exactly limit of them
C17_Witness ==
  /\ s_pc = "done"
  /\ Len(all_results) > s_limit
  /\ Len(s_ret) = s_limit
  /\ \E a, b \in StoreIds : a # b /\ s_returned[a] # <<>> /\ s_returned[b] # <<>>

\* ------------------------------------------------------------------------
\* Properties of blank input and of total failure
\* ------------------------------------------------------------------------
\* what the caller of the generate_qa endpoint receives for this run
Response == generate_qa(doc, raised, ret)

\* C19: for empty or whitespace-only input chunk_document returns an empty
\* chunk list, generate_qa_pairs returns an empty result without making any
\* generation call, and the caller receives an empty successful outcome
\* rather than an error response.
C19_BlankInputNotAnError ==
  (qa_pc = "done" /\ IsBlankDoc) =>
    /\ \A splitterOk \in BOOLEAN : chunk_document(doc, splitterOk) = <<>>
    /\ ret = <<>>
    /\ calls = <<>>
    /\ ~raised
    /\ Response.success
    /\ Response.qa_count = 0

\* what generate_qa_pairs hands its caller: the returned text, or an exception
SynthesisOutcome == [content |-> ret, raised |-> raised]

\* what generate_qa_pairs hands its caller for blank text
NoInputOutcome == [content |-> <<>>, raised |-> FALSE]

\* every generation call of the run failed
TotalFailure ==
  /\ calls # <<>>
  /\ \A i \in 1..Len(calls) : calls[i].out # "ok"

\* C20: the outcome of a synthesis run in which every chunk failed differs
\* from the outcome of a run on blank text (it carries a diagnostic count of
\* failed units), so the caller can tell the two apart.
C20_NoInputVsTotalFailure ==
  (qa_pc = "done" /\ TotalFailure) => SynthesisOutcome # NoInputOutcome

\* ------------------------------------------------------------------------
\* Order of the steps of a run
\* ------------------------------------------------------------------------
\* the chunks that have had a generation call among the first n calls
ChunksCalledBefore(n) ==
  {calls[i].chunk : i \in {k \in 1..(n - 1) : calls[k].kind = "chunk"}}

\* a step that issues a generation call leaves the quota as it was set
QuotaFixedBeforeCalls == calls' # calls => (qpc >= 1 /\ qpc' = qpc)

\* a top-up call comes after a generation call for every chunk
TopUpAfterAllChunks ==
  \A n \in 1..Len(calls) :
    calls[n].kind = "topup" => ChunksCalledBefore(n) = 1..Len(chunks)

\* the result is written only on the step into Done, and when a top-up was
\* due, only by the step in which the top-up call returned
CleanAfterTopUp ==
  ret' # ret =>
    /\ qa_pc' = "done"
    /\ qa_pc = "topup" =>
         (Len(calls') = Len(calls) + 1 /\ calls'[Len(calls')].kind = "topup")

FirstRoundDistinct ==
  Len(FirstSeen(qa_to_documents(Join(FirstRoundTexts)), {}))

\* C22: the produced count that decides whether and how much to top up is
\* taken over the deduplicated buffer: a top-up is requested exactly when the
\* distinct items are fewer than target_count, and it asks for target_count
\* minus the number of distinct items.
C22_CountOverDeduplicated ==
  (qa_pc = "done" /\ OnChunkedPath /\ FirstRoundTexts # <<>>) =>
    /\ TopUpCalls # <<>> <=> FirstRoundDistinct < target
    /\ TopUpCalls # <<>> => TopUpCalls[1].num = target - FirstRoundDistinct

\* C23: the deduplication key of a record is its whitespace-collapsed,
\* lowercased text: two records whose texts differ only in letter case and/or
\* in runs of whitespace never both appear in the output of clean_qa_content.
C23_KeyIsCollapsedLowercase ==
  (qa_pc = "done" /\ full_content # <<>>) =>
    \A i, j \in 1..Len(Records) :
      i # j => Lower(Strip(CollapseWS(Records[i]))) # Lower(Strip(CollapseWS(Records[j])))

\* the items the marker scan counts: from each counted marker up to the next
CountedItems(text) ==
  LET at == {i \in 1..Len(text) : text[i].k \in {"num", "open"}}
      End(i) == IF \E j \in at : j > i
                THEN (CHOOSE j \in at : j > i /\ \A j2 \in at : j2 > i => j <= j2) - 1
                ELSE Len(text)
  IN {Lower(Strip(CollapseWS(SubSeq(text, i, End(i))))) : i \in at}

\* C24: every item the marker scan of the combined buffer counts toward the
\* quota is also extracted as a record by finalization: a run whose quota
\* check finds a produced count >= target_count with pairwise-distinct items
\* returns exactly target_count records.
C24_CountingAgreesWithParsing ==
  (/\ qa_pc = "done"
   /\ OnChunkedPath
   /\ FirstRoundTexts # <<>>
   /\ FirstRoundCount >= target
   /\ Cardinality(CountedItems(Join(FirstRoundTexts))) = FirstRoundCount) =>
    Len(Records) = target

\* ------------------------------------------------------------------------
\* Properties of the chat service's search
\* ------------------------------------------------------------------------
\* collection st answers and holds a point whose score reaches the threshold
ReachableWithHit(st) ==
  /\ s_env[st] = "ok"
  /\ \E k \in 1..Len(store_points[st]) : store_points[st][k].score >= s_threshold

\* C25: search_relevant_documents_multiple returns a non-empty result whenever
\* a searched collection is reachable and holds a hit with score >= the
\* threshold, with named collections and with all collections: its call to
\* search_similar is accepted and existing collections are not skipped.
C25_ChatSearchFindsHits ==
  (/\ s_pc = "done"
   /\ s_variant \in {"chat_named", "chat_all"}
   /\ \E st \in StoreIds : ReachableWithHit(st)) =>
    /\ s_ret # <<>>
    /\ \A st \in StoreIds : s_env[st] = "ok" => s_status[st] = "ok"

\* ------------------------------------------------------------------------
\* vector_store.py: QdrantVectorStore
\* ------------------------------------------------------------------------
NumColls == 2
MaxBatch == 2
MaxStoreOps == 4

CollNames == 1..NumColls

\* the keys of config.EMBEDDING_MODELS, and the names a caller may pass
KnownModels == {"known"}
ModelNames == {"known", "unknown"}

\* ids of the points insert_documents writes: enumerate(documents, start=1)
PointIds == 1..MaxBatch

\* a name without collection; points[i] = 0: no point with id i
NoColl ==
  [exists |-> FALSE, meta |-> FALSE, count |-> 0, points |-> [i \in PointIds |-> 0]]

\* client.create_collection followed by the upsert of the metadata point
\* (id 0, document_count 0); metaOk = FALSE: the upsert failed
CreatedColl(metaOk) ==
  [exists |-> TRUE, meta |-> metaOk, count |-> 0, points |-> [i \in PointIds |-> 0]]

\* the except branch of create_collection: client.delete_collection(name),
\* whose own failure is ignored (deleteOk = FALSE)
DeleteOnFailure(cs, name, deleteOk) ==
  IF deleteOk THEN [cs EXCEPT ![name] = NoColl] ELSE cs

\* create_collection(name, model): the collections afterwards and whether
\* the call returned (ok) or raised.  env is what the backing service does.
create_collection(cs, name, model, env, deleteOk) ==
  IF env = "no_connection" THEN [colls |-> cs, ok |-> FALSE]
  ELSE IF model \notin KnownModels
  THEN [colls |-> DeleteOnFailure(cs, name, deleteOk), ok |-> FALSE]
  ELSE IF cs[name].exists \/ env = "create_error"
  THEN [colls |-> DeleteOnFailure(cs, name, deleteOk), ok |-> FALSE]
  ELSE IF env = "upsert_error"
  THEN [colls |-> DeleteOnFailure([cs EXCEPT ![name] = CreatedColl(FALSE)],
                                  name, deleteOk),
        ok |-> FALSE]
  ELSE [colls |-> [cs EXCEPT ![name] = CreatedColl(TRUE)], ok |-> TRUE]

\* the points of a collection after the upsert of documents first..first+n-1
\* under the ids 1..n
UpsertDocuments(points, first, n) ==
  [i \in PointIds |-> IF i <= n THEN first + i - 1 ELSE points[i]]

\* _update_collection_document_count: adds the increment to the stored
\* count; a collection without metadata point and any error are passed over
UpdateDocumentCount(c, increment, updateOk) ==
  IF c.meta /\ updateOk THEN [c EXCEPT !.count = c.count + increment] ELSE c

\* insert_documents(name, n documents numbered from first): the collections
\* afterwards and whether the call returned True (ok)
insert_documents(cs, name, first, n, env) ==
  IF env = "no_connection" THEN [colls |-> cs, ok |-> FALSE]
  ELSE IF ~cs[name].exists \/ ~cs[name].meta THEN [colls |-> cs, ok |-> FALSE]
  ELSE IF n > 0 /\ env = "embed_error" THEN [colls |-> cs, ok |-> FALSE]
  ELSE IF n = 0 THEN [colls |-> cs, ok |-> FALSE]
  ELSE IF env = "upsert_error" THEN [colls |-> cs, ok |-> FALSE]
  ELSE LET stored == [cs[name] EXCEPT !.points = UpsertDocuments(@, first, n)]
       IN [colls |-> [cs EXCEPT ![name] =
                        UpdateDocumentCount(stored, n, env # "count_error")],
           ok |-> TRUE]

\* the number of points of a collection other than the metadata point
RealCount(c) == Cardinality({i \in PointIds : c.points[i] # 0})

\* _recalculate_collection_document_count
recalculate_document_count(cs, name, recalcOk) ==
  IF cs[name].exists /\ cs[name].meta /\ recalcOk
  THEN [cs EXCEPT ![name].count = RealCount(cs[name])]
  ELSE cs

StoreInit ==
  /\ QAIdle
  /\ SIdle
  /\ CIdle
  /\ colls = [n \in CollNames |-> NoColl]
  /\ inserted = [n \in CollNames |-> {}]
  /\ next_doc = 1
  /\ v_steps = 0
  /\ v_last = [op |-> "none", name |-> 0, ok |-> TRUE]

\* the documents of a collection that exists after an operation
InsertedAfter(cs2, name, docs) ==
  [inserted EXCEPT ![name] = IF cs2[name].exists THEN docs ELSE {}]

CreateCollection ==
  /\ v_steps < MaxStoreOps
  /\ \E name \in CollNames, model \in ModelNames, deleteOk \in BOOLEAN,
        env \in {"ok", "no_connection", "create_error", "upsert_error"} :
       LET r == create_collection(colls, name, model, env, deleteOk)
       IN /\ colls' = r.colls
          /\ inserted' = InsertedAfter(r.colls, name,
                            IF r.ok THEN {} ELSE inserted[name])
          /\ v_last' = [op |-> "create", name |-> name, ok |-> r.ok]
  /\ v_steps' = v_steps + 1
  /\ UNCHANGED next_doc
  /\ UNCHANGED <<qaVars, sVars, cVars>>

InsertDocuments ==
  /\ v_steps < MaxStoreOps
  /\ \E name \in CollNames, n \in 0..MaxBatch,
        env \in {"ok", "no_connection", "embed_error", "upsert_error", "count_error"} :
       LET r == insert_documents(colls, name, next_doc, n, env)
       IN /\ colls' = r.colls
          /\ inserted' = IF r.ok
                          THEN [inserted EXCEPT ![name] = @ \cup (next_doc..(next_doc + n - 1))]
                          ELSE inserted
          /\ next_doc' = next_doc + n
          /\ v_last' = [op |-> "insert", name |-> name, ok |-> r.ok]
  /\ v_steps' = v_steps + 1
  /\ UNCHANGED <<qaVars, sVars, cVars>>

RecalculateCount ==
  /\ v_steps < MaxStoreOps
  /\ \E name \in CollNames, recalcOk \in BOOLEAN :
       /\ colls' = recalculate_document_count(colls, name, recalcOk)
       /\ v_last' = [op |-> "recalculate", name |-> name, ok |-> TRUE]
  /\ v_steps' = v_steps + 1
  /\ UNCHANGED <<inserted, next_doc>>
  /\ UNCHANGED <<qaVars, sVars, cVars>>

\* delete_collection: raises when the backing service fails
DeleteCollection ==
  /\ v_steps < MaxStoreOps
  /\ \E name \in CollNames, deleteOk \in BOOLEAN :
       /\ colls' = IF deleteOk THEN [colls EXCEPT ![name] = NoColl] ELSE colls
       /\ inserted' = IF deleteOk THEN [inserted EXCEPT ![name] = {}] ELSE inserted
       /\ v_last' = [op |-> "delete", name |-> name, ok |-> deleteOk]
  /\ v_steps' = v_steps + 1
  /\ UNCHANGED next_doc
  /\ UNCHANGED <<qaVars, sVars, cVars>>

StoreNext == CreateCollection \/ InsertDocuments \/ RecalculateCount \/ DeleteCollection

SpecStore == StoreInit /\ [][StoreNext]_vars

\* ------------------------------------------------------------------------
\* Properties of the vector store
\* ------------------------------------------------------------------------
\* C26: a create_collection call that fails leaves every collection that
\* existed before the call, including one of the same name, present and
\* unchanged.
C26_FailedCreateKeepsCollections ==
  [][(v_steps' # v_steps /\ v_last'.op = "create" /\ ~v_last'.ok) =>
       \A n \in CollNames : colls[n].exists => colls'[n] = colls[n]]_vars

\* the document_count of collection n equals its number of stored documents
CountMatches(cs, n) == cs[n].count = RealCount(cs[n])

\* C27: a successful insert_documents call on a collection whose
\* document_count equals its number of stored non-metadata points leaves the
\* two equal, so they are equal after any sequence of successful inserts.
C27_CountEqualsStoredPoints ==
  [][(/\ v_steps' # v_steps
      /\ v_last'.op = "insert"
      /\ v_last'.ok
      /\ CountMatches(colls, v_last'.name)) =>
       CountMatches(colls', v_last'.name)]_vars

\* C28: insert_documents never replaces a stored document: every document
\* inserted into a collection since its creation is still stored in it.
C28_InsertNeverReplaces ==
  \A n \in CollNames :
    colls[n].exists =>
      inserted[n] \subseteq {colls[n].points[i] : i \in PointIds}

\* ------------------------------------------------------------------------
\* chat_service.py: RAGChatService
\* ------------------------------------------------------------------------
NumSessionIds == 3
MaxChats == 3

\* the session ids create_session may hand out; 0 is an id it never hands out
SessionIds == 1..NumSessionIds

NoSession == [exists |-> FALSE, messages |-> <<>>]

\* ChatSession(session_id) after __post_init__
NewSession == [exists |-> TRUE, messages |-> <<>>]

\* self.use_n8n, set in __init__ and never changed
use_n8n == TRUE

\* what the webhook call may do: answer with a JSON object, with or without
\* a "response" field, fail to connect, answer with an HTTP error status,
\* or answer with a body that is not a JSON object
N8nOutcomes ==
  {"ok", "ok_without_response", "connection_error", "http_error", "malformed"}

\* variant: a malformed answer leaves send_to_n8n as an exception
send_to_n8n_Propagating(o) ==
  [success |-> o \in {"ok", "ok_without_response"}, raised |-> o = "malformed"]

\* send_to_n8n: both except branches return success False, nothing is raised
send_to_n8n(o) ==
  [success |-> o \in {"ok", "ok_without_response"}, raised |-> FALSE]

\* variant: an error of the language model leaves generate_response
generate_response_Raising(llmOk) == IF llmOk THEN "text" ELSE "raise"

\* generate_response: the answer, or the error message as the answer
generate_response(llmOk) == "text"

\* ChatSession.add_message
add_message(session, role) ==
  [session EXCEPT !.messages = Append(@, role)]

ChatInit ==
  /\ QAIdle
  /\ SIdle
  /\ KIdle
  /\ sessions = [id \in SessionIds |-> NoSession]
  /\ c_count = 0
  /\ c_result = [session_id |-> 0, processed_by |-> "none"]
  /\ c_trace = [asked |-> 0, n8n |-> "none", searched |-> FALSE]

\* create_session: a session under an id not in use
CreateSession ==
  /\ \E id \in SessionIds :
       /\ ~sessions[id].exists
       /\ sessions' = [sessions EXCEPT ![id] = NewSession]
  /\ UNCHANGED <<c_count, c_result, c_trace>>
  /\ UNCHANGED <<qaVars, sVars, kVars>>

\* delete_session of a session that exists
DeleteSession ==
  /\ \E id \in SessionIds :
       /\ sessions[id].exists
       /\ sessions' = [sessions EXCEPT ![id] = NoSession]
  /\ UNCHANGED <<c_count, c_result, c_trace>>
  /\ UNCHANGED <<qaVars, sVars, kVars>>

\* chat(asked, message): the session is looked up or created, the user
\* message added, N8N tried, and on its failure the local search and
\* generation run; the except branch answers processed_by "error"
Chat ==
  /\ c_count < MaxChats
  /\ \E asked \in SessionIds \cup {0}, fresh \in SessionIds,
        o \in N8nOutcomes, llmOk \in BOOLEAN :
       LET known == asked \in SessionIds /\ sessions[asked].exists
           sid == IF known THEN asked ELSE fresh
           session == IF known THEN sessions[asked] ELSE NewSession
           asked_user == add_message(session, "user")
           n8n == send_to_n8n(o)
           answered == add_message(asked_user, "assistant")
       IN /\ ~known => (~sessions[fresh].exists /\ fresh # asked)
          /\ known => fresh = asked
          /\ IF use_n8n /\ n8n.raised
             THEN /\ sessions' = [sessions EXCEPT ![sid] = asked_user]
                  /\ c_result' = [session_id |-> sid, processed_by |-> "error"]
                  /\ c_trace' = [asked |-> asked, n8n |-> o, searched |-> FALSE]
             ELSE IF use_n8n /\ n8n.success
             THEN /\ sessions' = [sessions EXCEPT ![sid] = answered]
                  /\ c_result' = [session_id |-> sid, processed_by |-> "n8n"]
                  /\ c_trace' = [asked |-> asked, n8n |-> o, searched |-> FALSE]
             ELSE IF generate_response(llmOk) = "raise"
             THEN /\ sessions' = [sessions EXCEPT ![sid] = asked_user]
                  /\ c_result' = [session_id |-> sid, processed_by |-> "error"]
                  /\ c_trace' = [asked |-> asked, n8n |-> o, searched |-> TRUE]
             ELSE /\ sessions' = [sessions EXCEPT ![sid] = answered]
                  /\ c_result' = [session_id |-> sid, processed_by |-> "local"]
                  /\ c_trace' = [asked |-> asked, n8n |-> o, searched |-> TRUE]
  /\ c_count' = c_count + 1
  /\ UNCHANGED <<qaVars, sVars, kVars>>

ChatNext == CreateSession \/ DeleteSession \/ Chat

SpecChat == ChatInit /\ [][ChatNext]_vars

\* ------------------------------------------------------------------------
\* Properties of chat
\* ------------------------------------------------------------------------
Alternates(messages) ==
  \A i \in 1..Len(messages) :
    messages[i] = (IF i % 2 = 1 THEN "user" ELSE "assistant")

\* C29: every chat call ends with the session named in its result existing
\* and having gained exactly one user message followed by exactly one
\* assistant message; hence the messages of every session alternate user,
\* assistant.
C29_ChatAddsOneExchange ==
  /\ [][c_count' # c_count =>
          LET sid == c_result'.session_id
              before == IF sessions[sid].exists THEN sessions[sid].messages ELSE <<>>
          IN /\ sid \in SessionIds
             /\ sessions'[sid].exists
             /\ sessions'[sid].messages = before \o <<"user", "assistant">>]_vars
  /\ [](\A id \in SessionIds : sessions[id].exists => Alternates(sessions[id].messages))

\* a chat call for an unknown session id has just made a session, next to a
\* session that has had two exchanges, one of them answered locally after an
\* error of the language model
C29_Witness ==
  /\ c_count = MaxChats
  /\ c_trace.asked = 0
  /\ c_trace.searched
  /\ sessions[c_result.session_id].messages = <<"user", "assistant">>
  /\ \E id \in SessionIds :
       /\ sessions[id].exists
       /\ Len(sessions[id].messages) = 4

\* C30: when the N8N webhook call fails (connection error, HTTP error,
\* malformed response), chat falls back to local retrieval and generation and
\* returns processed_by "local", never "n8n" or "error"; when N8N succeeds,
\* local retrieval is not performed.
C30_N8nFallback ==
  c_count > 0 =>
    /\ c_trace.n8n \in {"connection_error", "http_error", "malformed"} =>
         (c_result.processed_by = "local" /\ c_trace.searched)
    /\ c_trace.n8n \in {"ok", "ok_without_response"} =>
         (c_result.processed_by = "n8n" /\ ~c_trace.searched)

\* a chat call whose webhook answer was malformed was served locally
C30_Witness ==
  /\ c_count > 0
  /\ c_trace.n8n = "malformed"
  /\ c_trace.searched
  /\ c_result.processed_by = "local"
  /\ Len(sessions[c_result.session_id].messages) >= 2
====
